---- MODULE Spec2Model ----
(***************************************************************************)
(* citium: scheduled REST calls kept in a DynamoDB table and triggered by  *)
(* a periodic pass (scheduler.TriggerAPI).  The model covers the record    *)
(* store (scheduler/storage.go), the request executor (scheduler/http.go), *)
(* the dispatch pass with its goroutines, WaitGroup and error channel, and *)
(* the administrative commands of the cli (create, list, lock, unlock).    *)
(***************************************************************************)
EXTENDS Integers, Sequences, FiniteSets, TLC

\* ------------------------------------------------------------------ bounds
NumIds == 2          \* record ids 1..NumIds
NumPasses == 2       \* pass slots (invocations that may overlap)
MaxRuns == 2         \* passes started in one behaviour
MaxTime == 1         \* the clock stops advancing here (in ticks)
MaxFreeze == 1       \* largest -freeze duration of a create (in ticks)
MaxCreates == 2      \* create commands in one behaviour
MaxToggles == 1      \* lock/unlock commands in one behaviour
MaxFaults == 2       \* failing store or executor calls in one behaviour
NumKeys == 3         \* keys a table may hold (record ids are among them)
MaxEff == 2          \* latest EffectiveAfter and clock value of a listed table (in ticks)
MaxLists == 1        \* list commands in one behaviour
MaxGets == 1         \* get commands in one behaviour
MaxShared == 1       \* records of a table that overlapping invocations work on

\* ------------------------------------------------------- program constants
TicksPerSec == 2     \* the clock has sub-second resolution; unixFormat has not
ErrcCap == 1         \* make(chan error, 1)
PageItems == 2       \* items one Scan call reads (one page of at most 1 MB)

Ids == 1..NumIds
Keys == 1..NumKeys
Passes == 1..NumPasses
Slots == 1..NumIds   \* a pass holds at most one task per record of the table

VARIABLES
  store,      \* the table: a function from the ids present to their items
  now,        \* time.Now(), in ticks
  ppc,        \* per pass: position of the goroutine that called TriggerAPI
  requests,   \* per pass: the records returned by FetchSchedRequests
  dpc,        \* per pass: position of the dispatching goroutine
  di,         \* per pass: its loop index i (1-based)
  wg,         \* per pass: the WaitGroup counter
  errc,       \* per pass: buffer of the error channel
  closed,     \* per pass: the error channel has been closed
  perr,       \* per pass: err of TriggerAPI, the errors combined so far
  tpc,        \* per pass and slot: position of the task goroutine
  terr,       \* per pass and slot: the error execute returns
  tresp,      \* per pass and slot: the response of execRequest
  wire,       \* per pass and slot: requests the task has sent to the upstream
  calls,      \* per pass and slot: the store and executor calls made so far
  claimed,    \* per id: a pass has locked the record and nobody unlocked it
  runs,       \* passes started so far
  creates,    \* create commands so far
  toggles,    \* lock/unlock commands so far
  listed,     \* what the last list command printed
  lists,      \* list commands so far
  halt,       \* per key: the last lock or unlock command of an operator
  got,        \* what the last get command received from scheduler.Get
  gets,       \* get commands so far
  sent,       \* the header of the last request DoRequest built, and its inputs
  cancelled,  \* per pass: the ctx of the invocation has been cancelled
  faults      \* failed calls so far

vars == <<store, now, ppc, requests, dpc, di, wg, errc, closed, perr,
          tpc, terr, tresp, wire, calls, claimed, runs, creates, toggles, listed,
          lists, halt, got, gets, sent, cancelled, faults>>

passVars == <<ppc, requests, dpc, di, wg, errc, closed, perr, cancelled>>
taskVars == <<tpc, terr, tresp, wire, calls>>
adminVars == <<creates, toggles, listed, lists, halt, got, gets, sent>>

\* ------------------------------------------------------------------- time
\* A time.Time marshalled by dynamodbattribute (RFC3339Nano): the second and
\* the fraction, the fraction printed only when it is not zero.
RFC3339Nano(t) == [sec |-> t \div TicksPerSec, frac |-> t % TicksPerSec]

\* current.Format(unixFormat): whole seconds, no fraction.
unixFormat(t) == [sec |-> t \div TicksPerSec, frac |-> 0]

\* The zero time.Time ("0001-01-01T00:00:00Z"), earlier than every clock value.
ZeroTime == [sec |-> 0 - 1, frac |-> 0]

\* a <= b for two timestamps compared as strings, as the filter expression of
\* the scan compares them: "...SS.fffZ" sorts before "...SSZ" ('.' < 'Z').
StrLE(a, b) ==
  IF a.sec # b.sec THEN a.sec < b.sec
  ELSE IF a.frac = b.frac THEN TRUE
  ELSE IF a.frac = 0 THEN FALSE
  ELSE IF b.frac = 0 THEN TRUE
  ELSE a.frac < b.frac

\* ----------------------------------------------------------------- errors
\* An error is the sequence of the parts of its message; nil is the empty one.
Nil == <<>>
Wrap(err, msg) == <<msg>> \o err
\* Mutant of Append2: the second error replaces the first.
Append2Overrides(left, right) == IF right = Nil THEN left ELSE right

\* multierr.Append(left, right) of two errors of one record
Append2(left, right) ==
  IF right = Nil THEN left
  ELSE IF left = Nil THEN right
  ELSE left \o <<";">> \o right
\* Mutant of Combine: the error received is dropped.
CombineDrops(list, e) == list

\* Mutant of Combine: only the error received last is kept.
CombineKeepsLast(list, e) == IF e = Nil THEN list ELSE <<e>>

\* multierr.Combine(err, gErr) in TriggerAPI: err is the list gathered so far
Combine(list, e) == IF e = Nil THEN list ELSE list \o <<e>>

BackendErr == <<"Internal error">>

\* ------------------------------------------------------ the DynamoDB table
Present(s, id) == id \in DOMAIN s
Has(item, attr) == attr \in DOMAIN item

\* PutItem: the item replaces whatever is stored under its key.
PutItem(s, item) == (item.ID :> item) @@ s

\* UpdateItem with a SET expression: the attributes are written into the item
\* of that key; a key that is not in the table gets a new item.
UpdateItem(s, id, attrs) ==
  IF Present(s, id) THEN (id :> (attrs @@ s[id])) @@ s
  ELSE (id :> (attrs @@ [ID |-> id])) @@ s

DeleteItem(s, id) == [i \in (DOMAIN s) \ {id} |-> s[i]]

\* The item under the key has Locking = true.
Locked(s, id) == Present(s, id) /\ Has(s[id], "Locking") /\ s[id].Locking = TRUE

\* Mutant of FilterExpression: the filter leaves Locking out.
FilterExpressionNoLocking(item, d) ==
  Has(item, "EffectiveAfter") /\ StrLE(item.EffectiveAfter, d)

\* Mutant of FilterExpression: a record that holds the outcome of an execution
\* is not selected again.
FilterExpressionOnce(item, d) ==
  /\ Has(item, "EffectiveAfter") /\ StrLE(item.EffectiveAfter, d)
  /\ Has(item, "Locking") /\ item.Locking = FALSE
  /\ ~(Has(item, "ExecutionResult") /\ item.ExecutionResult # <<>>)
  /\ ~(Has(item, "FailureReason") /\ item.FailureReason # Nil)

\* "EffectiveAfter <= :d and Locking = :l" with :l = false; a comparison with
\* an attribute the item does not have is false.
FilterExpression(item, d) ==
  /\ Has(item, "EffectiveAfter") /\ StrLE(item.EffectiveAfter, d)
  /\ Has(item, "Locking") /\ item.Locking = FALSE

\* The sets of items one Scan call can read: the whole table when it fits a
\* page, else the items of its first page (which ones depends on the keys).
\* The filter is applied to the page; FetchSchedRequests calls Scan once and
\* does not go on from LastEvaluatedKey.
ScanPages(s) ==
  {P \in SUBSET DOMAIN s :
     Cardinality(P) = IF Cardinality(DOMAIN s) < PageItems
                      THEN Cardinality(DOMAIN s) ELSE PageItems}

\* The ids of the items a scan at time t returns from the page it read.
ScanIds(s, page, t) == {id \in page : FilterExpression(s[id], unixFormat(t))}

\* dynamodbattribute.UnmarshalMap: the attributes an item lacks are zero values.
UnmarshalMap(item) ==
  [ID |-> item.ID,
   EffectiveAfter |-> IF Has(item, "EffectiveAfter") THEN item.EffectiveAfter ELSE ZeroTime,
   Locking |-> IF Has(item, "Locking") THEN item.Locking ELSE FALSE,
   PersistentStore |-> IF Has(item, "PersistentStore") THEN item.PersistentStore ELSE FALSE]

\* All orders in which a scan can return a set of ids.
Perms(S) == {q \in [1..Cardinality(S) -> S] : \A i, j \in DOMAIN q : q[i] = q[j] => i = j}

\* FetchSchedRequests(current): the results of a successful scan.
FetchSchedRequests(s, t) ==
  {[k \in DOMAIN q |-> UnmarshalMap(s[q[k]])] :
     q \in UNION {Perms(ScanIds(s, page, t)) : page \in ScanPages(s)}}

\* --------------------------------------------------- storage.go mutations
\* Mutant of setLocking: the write depends on the value it finds and flips it.
setLockingFlips(s, id, status) == UpdateItem(s, id, [Locking |-> ~Locked(s, id)])

\* Mutant of setLocking: the item is replaced by one that holds Locking only.
setLockingPuts(s, id, status) == PutItem(s, [ID |-> id, Locking |-> status])

\* setLocking: SET Locking = :l
setLocking(s, id, status) == UpdateItem(s, id, [Locking |-> status])
Lock(s, id) == setLocking(s, id, TRUE)
Unlock(s, id) == setLocking(s, id, FALSE)

\* json.Marshal(resp)
Marshal(resp) == <<[code |-> resp.Code, body |-> resp.Body]>>

\* Mutant of updateResult: the item is replaced by one that holds the result only.
updateResultReplaces(s, id, resp, t) ==
  PutItem(s, [ID |-> id, ExecutionResult |-> Marshal(resp), ExecutedAt |-> unixFormat(t)])

\* Mutant of updateResult: a stored failure reason is cleared with the result.
updateResultClearsFailure(s, id, resp, t) ==
  UpdateItem(s, id, [ExecutionResult |-> Marshal(resp), ExecutedAt |-> unixFormat(t),
                     FailureReason |-> Nil])

\* updateResult: SET ExecutionResult = :r, ExecutedAt = :e
updateResult(s, id, resp, t) ==
  UpdateItem(s, id, [ExecutionResult |-> Marshal(resp), ExecutedAt |-> unixFormat(t)])

\* Mutant of removeRequest: nothing is deleted.
removeRequestKeeps(s, id) == s

\* removeRequest
removeRequest(s, id) == DeleteItem(s, id)

\* Mutant of logFailure: the failure write also releases the record.
logFailureUnlocks(s, id, lerr) ==
  UpdateItem(s, id, [FailureReason |-> lerr, Locking |-> FALSE])

\* logFailure: SET FailureReason = :f with :f = lerr.Error()
logFailure(s, id, lerr) == UpdateItem(s, id, [FailureReason |-> lerr])

\* The item Create marshals from the request the cli builds.
NewItem(id, t, freeze, persistent) ==
  [ID |-> id,
   ExecutedAt |-> ZeroTime,
   EffectiveAfter |-> RFC3339Nano(t + freeze),
   Locking |-> FALSE,
   FailureReason |-> Nil,
   PersistentStore |-> persistent,
   ExecutionResult |-> <<>>]

\* GetItem: the attributes of the item under the key; when the table holds no
\* item under it the call succeeds and the output has no attributes at all.
GetItem(s, id) == IF Present(s, id) THEN s[id] ELSE <<>>

\* dynamodbattribute.UnmarshalMap(output.Item, new(schema.ScheduledRequest)):
\* a field whose attribute the item lacks keeps its zero value.
UnmarshalRequest(item) ==
  [ID |-> IF Has(item, "ID") THEN item.ID ELSE 0,
   ExecutedAt |-> IF Has(item, "ExecutedAt") THEN item.ExecutedAt ELSE ZeroTime,
   EffectiveAfter |-> IF Has(item, "EffectiveAfter") THEN item.EffectiveAfter ELSE ZeroTime,
   Locking |-> IF Has(item, "Locking") THEN item.Locking ELSE FALSE,
   FailureReason |-> IF Has(item, "FailureReason") THEN item.FailureReason ELSE Nil,
   PersistentStore |-> IF Has(item, "PersistentStore") THEN item.PersistentStore ELSE FALSE,
   ExecutionResult |-> IF Has(item, "ExecutionResult") THEN item.ExecutionResult ELSE <<>>]

\* Get when conn.GetItem succeeds: the unmarshalled output and a nil error.
Get(s, id) == [err |-> Nil, req |-> UnmarshalRequest(GetItem(s, id))]

\* ----------------------------------------------------- the request executor
Codes == {200, 500}
NoResp == [Code |-> 0, Body |-> ""]

\* Mutant of DoRequestOutcomes: a response with status code 500 is an error.
DoRequestOutcomesCheckStatus ==
  {[err |-> <<"url.Parse">>, net |-> FALSE, resp |-> NoResp],
   [err |-> <<"http.NewRequest">>, net |-> FALSE, resp |-> NoResp],
   [err |-> <<"c.Do">>, net |-> TRUE, resp |-> NoResp],
   [err |-> <<"ioutil.ReadAll resp.Body">>, net |-> TRUE, resp |-> NoResp],
   [err |-> <<"status code 500">>, net |-> TRUE, resp |-> [Code |-> 500, Body |-> "raw"]],
   [err |-> Nil, net |-> TRUE, resp |-> [Code |-> 200, Body |-> "raw"]]}

\* Mutant of DoRequestOutcomes: the url and the method are rejected by the
\* upstream, not before the request is sent.
DoRequestOutcomesLateCheck ==
  {[err |-> <<"url.Parse">>, net |-> TRUE, resp |-> NoResp],
   [err |-> <<"http.NewRequest">>, net |-> TRUE, resp |-> NoResp],
   [err |-> <<"c.Do">>, net |-> TRUE, resp |-> NoResp],
   [err |-> <<"ioutil.ReadAll resp.Body">>, net |-> TRUE, resp |-> NoResp]}
  \cup {[err |-> Nil, net |-> TRUE, resp |-> [Code |-> c, Body |-> "raw"]] : c \in Codes}

\* The outcomes of HTTPClient.DoRequest, whatever the method and url of the
\* record are: a url that does not parse or a method http.NewRequest rejects
\* (errors before any network i/o), a transport error, a body read error, or
\* the response of the upstream with its status code.
DoRequestOutcomes ==
  {[err |-> <<"url.Parse">>, net |-> FALSE, resp |-> NoResp],
   [err |-> <<"http.NewRequest">>, net |-> FALSE, resp |-> NoResp],
   [err |-> <<"c.Do">>, net |-> TRUE, resp |-> NoResp],
   [err |-> <<"ioutil.ReadAll resp.Body">>, net |-> TRUE, resp |-> NoResp]}
  \cup {[err |-> Nil, net |-> TRUE, resp |-> [Code |-> c, Body |-> "raw"]] : c \in Codes}

\* execRequest wraps the error of client.DoRequest
execRequestErr(err) == IF err = Nil THEN Nil ELSE Wrap(err, "client.DoRequest")

\* ---------------------------------------------------------------- initial
\* No get command has been given.
NoGet == [id |-> 0, out |-> "none", req |-> UnmarshalRequest(<<>>)]

\* DoRequest has built no request.
NoHeaders == [headers |-> <<>>, userAgent |-> "", token |-> "", header |-> <<>>]

\* Nothing runs yet and no command has been given.
InitIdle ==
  /\ ppc = [p \in Passes |-> "idle"]
  /\ requests = [p \in Passes |-> <<>>]
  /\ dpc = [p \in Passes |-> "none"]
  /\ di = [p \in Passes |-> 1]
  /\ wg = [p \in Passes |-> 0]
  /\ errc = [p \in Passes |-> <<>>]
  /\ closed = [p \in Passes |-> FALSE]
  /\ perr = [p \in Passes |-> <<>>]
  /\ tpc = [p \in Passes |-> [k \in Slots |-> "none"]]
  /\ terr = [p \in Passes |-> [k \in Slots |-> Nil]]
  /\ tresp = [p \in Passes |-> [k \in Slots |-> NoResp]]
  /\ wire = [p \in Passes |-> [k \in Slots |-> 0]]
  /\ calls = [p \in Passes |-> [k \in Slots |-> <<>>]]
  /\ claimed = [i \in Keys |-> FALSE]
  /\ runs = 0
  /\ creates = 0
  /\ toggles = 0
  /\ listed = [ok |-> TRUE, out |-> <<>>]
  /\ lists = 0
  /\ halt = [i \in Keys |-> "none"]
  /\ got = NoGet
  /\ gets = 0
  /\ sent = NoHeaders
  /\ cancelled = [p \in Passes |-> FALSE]
  /\ faults = 0

\* The clock starts; nothing runs yet and no command has been given.
InitRest == now = 0 /\ InitIdle

\* The table is empty.
Init == store = <<>> /\ InitRest

\* The tables that hold records as create leaves them (created at time 0).
FreshTables ==
  UNION {{t \in [S -> {NewItem(id, 0, f, b) : id \in S, f \in 0..MaxFreeze, b \in BOOLEAN}] :
            \A id \in S : t[id].ID = id} : S \in SUBSET Ids}

\* The table holds some records already.
InitTable == store \in FreshTables /\ InitRest

\* The items a table can hold under a key: a record as create leaves it, or
\* one that a pass or an operator has locked since.
KeyItems(id) ==
  UNION {{NewItem(id, 0, e, b), Lock(id :> NewItem(id, 0, e, b), id)[id]} :
           e \in 0..MaxEff, b \in BOOLEAN}

\* The tables of up to NumKeys such items.
ListedTables ==
  UNION {{t \in [S -> UNION {KeyItems(id) : id \in S}] : \A id \in S : t[id].ID = id} :
           S \in SUBSET Keys}

\* Some table at some time of the clock.
InitListed == store \in ListedTables /\ now \in 0..MaxEff /\ InitIdle

\* --------------------------------------------------- the cli commands
\* -action=create: CreatedAt = now, EffectiveAfter = CreatedAt + freeze, then
\* scheduler.Create puts the item.
Create(id, freeze, persistent) ==
  /\ creates < MaxCreates
  /\ creates' = creates + 1
  /\ store' = PutItem(store, NewItem(id, now, freeze, persistent))
  /\ claimed' = [claimed EXCEPT ![id] = FALSE]
  /\ halt' = [halt EXCEPT ![id] = "none"]
  /\ UNCHANGED <<now, passVars, taskVars, runs, toggles, listed, lists, got, gets,
                 sent, faults>>

\* -action=lock
AdminLock(id) ==
  /\ toggles < MaxToggles
  /\ toggles' = toggles + 1
  /\ store' = Lock(store, id)
  /\ halt' = [halt EXCEPT ![id] = "locked"]
  /\ UNCHANGED <<now, passVars, taskVars, claimed, runs, creates, listed, lists,
                 got, gets, sent, faults>>

\* -action=unlock
AdminUnlock(id) ==
  /\ toggles < MaxToggles
  /\ toggles' = toggles + 1
  /\ store' = Unlock(store, id)
  /\ claimed' = [claimed EXCEPT ![id] = FALSE]
  /\ halt' = [halt EXCEPT ![id] = IF Locked(store, id) THEN "released" ELSE "unlocked"]
  /\ UNCHANGED <<now, passVars, taskVars, runs, creates, listed, lists, got, gets,
                 sent, faults>>

\* -action=list: the records FetchSchedRequests returns are printed.
List ==
  /\ lists < MaxLists
  /\ lists' = lists + 1
  /\ \E recs \in FetchSchedRequests(store, now) :
       listed' = [ok |-> TRUE, out |-> recs]
  /\ UNCHANGED <<store, now, passVars, taskVars, claimed, runs, creates, toggles,
                 halt, got, gets, sent, faults>>

\* -action=list, the scan fails: panic(err), nothing is printed.
ListFail ==
  /\ lists < MaxLists
  /\ faults < MaxFaults
  /\ lists' = lists + 1
  /\ faults' = faults + 1
  /\ listed' = [ok |-> FALSE, out |-> <<>>]
  /\ UNCHANGED <<store, now, passVars, taskVars, claimed, runs, creates, toggles,
                 halt, got, gets, sent>>

\* -action=get, conn.GetItem succeeds: Get returns a record and a nil error,
\* and the cli prints the record.
GetCmd(id) ==
  /\ gets < MaxGets
  /\ gets' = gets + 1
  /\ LET r == Get(store, id)
     IN got' = [id |-> id, out |-> IF r.err = Nil THEN "record" ELSE "panic", req |-> r.req]
  /\ UNCHANGED <<store, now, passVars, taskVars, claimed, runs, creates, toggles,
                 listed, lists, halt, sent, faults>>

\* -action=get, conn.GetItem fails: Get wraps the error, which is then no
\* awserr.Error for the cli, so "not found" is not printed: panic(err).
GetCmdFail(id) ==
  /\ gets < MaxGets
  /\ faults < MaxFaults
  /\ gets' = gets + 1
  /\ faults' = faults + 1
  /\ got' = [id |-> id, out |-> "panic", req |-> UnmarshalRequest(<<>>)]
  /\ UNCHANGED <<store, now, passVars, taskVars, claimed, runs, creates, toggles,
                 listed, lists, halt, sent>>

\* The clock advances.
Tick ==
  /\ now < MaxTime
  /\ now' = now + 1
  /\ UNCHANGED <<store, passVars, taskVars, claimed, runs, adminVars, faults>>

\* ------------------------------------------------------------- TriggerAPI
Call(op, id, ok, arg) == [op |-> op, id |-> id, ok |-> ok, arg |-> arg]
Entry(id, text) == [id |-> id, text |-> text]

\* Invocations are interchangeable: a new one takes the first free slot.
FirstFree(p) == \A q \in Passes : q < p => ppc[q] # "idle"

\* lines 18-26, the scan succeeds: the records are kept, the dispatching
\* goroutine is started and the caller goes on to range over errc.
FetchOk(p) ==
  /\ ppc[p] = "idle"
  /\ FirstFree(p)
  /\ runs < MaxRuns
  /\ runs' = runs + 1
  /\ \E reqs \in FetchSchedRequests(store, now) :
       requests' = [requests EXCEPT ![p] = reqs]
  /\ ppc' = [ppc EXCEPT ![p] = "range"]
  /\ dpc' = [dpc EXCEPT ![p] = "loop"]
  /\ UNCHANGED <<store, now, di, wg, errc, closed, perr, taskVars, claimed,
                 cancelled, adminVars, faults>>

\* Mutant of FetchFail: the error is kept but TriggerAPI does not return; it
\* goes on with the records of a scan.
FetchFailDispatches(p) ==
  /\ ppc[p] = "idle"
  /\ FirstFree(p)
  /\ runs < MaxRuns
  /\ faults < MaxFaults
  /\ runs' = runs + 1
  /\ faults' = faults + 1
  /\ perr' = [perr EXCEPT ![p] =
       <<Entry(0, Wrap(Wrap(BackendErr, "conn.Scan"), "fetchSchedRequests"))>>]
  /\ \E reqs \in FetchSchedRequests(store, now) :
       requests' = [requests EXCEPT ![p] = reqs]
  /\ ppc' = [ppc EXCEPT ![p] = "range"]
  /\ dpc' = [dpc EXCEPT ![p] = "loop"]
  /\ UNCHANGED <<store, now, di, wg, errc, closed, taskVars, claimed, cancelled, adminVars>>

\* lines 18-21, the scan fails: TriggerAPI returns the wrapped error.
FetchFail(p) ==
  /\ ppc[p] = "idle"
  /\ FirstFree(p)
  /\ runs < MaxRuns
  /\ faults < MaxFaults
  /\ runs' = runs + 1
  /\ faults' = faults + 1
  /\ perr' = [perr EXCEPT ![p] =
       <<Entry(0, Wrap(Wrap(BackendErr, "conn.Scan"), "fetchSchedRequests"))>>]
  /\ ppc' = [ppc EXCEPT ![p] = "returned"]
  /\ UNCHANGED <<store, now, requests, dpc, di, wg, errc, closed, taskVars,
                 claimed, cancelled, adminVars>>

\* Mutant of Spawn: wg.Add(1) is called for the first task only.
SpawnAddsLate(p) ==
  /\ dpc[p] = "loop"
  /\ di[p] <= Len(requests[p])
  /\ wg' = [wg EXCEPT ![p] = IF di[p] = 1 THEN @ + 1 ELSE @]
  /\ tpc' = [tpc EXCEPT ![p][di[p]] = "lock"]
  /\ di' = [di EXCEPT ![p] = @ + 1]
  /\ UNCHANGED <<store, now, ppc, requests, dpc, errc, closed, perr, terr,
                 tresp, wire, calls, claimed, runs, cancelled, adminVars, faults>>

\* lines 29-37, one iteration of the dispatching loop: wg.Add(1) and the go
\* statement that starts the task of requests[i].
Spawn(p) ==
  /\ dpc[p] = "loop"
  /\ di[p] <= Len(requests[p])
  /\ wg' = [wg EXCEPT ![p] = @ + 1]
  /\ tpc' = [tpc EXCEPT ![p][di[p]] = "lock"]
  /\ di' = [di EXCEPT ![p] = @ + 1]
  /\ UNCHANGED <<store, now, ppc, requests, dpc, errc, closed, perr, terr,
                 tresp, wire, calls, claimed, runs, cancelled, adminVars, faults>>

\* Mutant of WaitReturns: the dispatching goroutine does not wait for the tasks.
WaitReturnsAtOnce(n) == TRUE

\* The counter wg.Wait lets through.
WaitReturns(n) == n = 0

\* lines 38-40 and 28: the loop is over, wg.Wait returns and the deferred
\* close(errc) runs.
WaitAndClose(p) ==
  /\ dpc[p] = "loop"
  /\ di[p] > Len(requests[p])
  /\ WaitReturns(wg[p])
  /\ closed' = [closed EXCEPT ![p] = TRUE]
  /\ dpc' = [dpc EXCEPT ![p] = "done"]
  /\ UNCHANGED <<store, now, ppc, requests, di, wg, errc, perr, taskVars,
                 claimed, runs, cancelled, adminVars, faults>>

\* Mutant of Receive: the errors are drained only after the dispatching
\* goroutine is done, not concurrently with the tasks.
ReceiveAfterDispatch(p) ==
  /\ ppc[p] = "range"
  /\ dpc[p] = "done"
  /\ errc[p] # <<>>
  /\ perr' = [perr EXCEPT ![p] = Combine(@, Head(errc[p]))]
  /\ errc' = [errc EXCEPT ![p] = Tail(@)]
  /\ UNCHANGED <<store, now, ppc, requests, dpc, di, wg, closed, taskVars,
                 claimed, runs, cancelled, adminVars, faults>>

\* lines 41-45: the range loop receives one error and combines it.
Receive(p) ==
  /\ ppc[p] = "range"
  /\ errc[p] # <<>>
  /\ perr' = [perr EXCEPT ![p] = Combine(@, Head(errc[p]))]
  /\ errc' = [errc EXCEPT ![p] = Tail(@)]
  /\ UNCHANGED <<store, now, ppc, requests, dpc, di, wg, closed, taskVars,
                 claimed, runs, cancelled, adminVars, faults>>

\* The range loop over errc ends: the channel is closed and drained.
RangeEnds(buf, isClosed) == isClosed /\ buf = <<>>

\* line 49: return err.
Return(p) ==
  /\ ppc[p] = "range"
  /\ RangeEnds(errc[p], closed[p])
  /\ ppc' = [ppc EXCEPT ![p] = "returned"]
  /\ UNCHANGED <<store, now, requests, dpc, di, wg, errc, closed, perr,
                 taskVars, claimed, runs, cancelled, adminVars, faults>>

\* The caller has taken the result; the slot is free for the next invocation.
Finish(p) ==
  /\ ppc[p] = "returned"
  /\ ppc' = [ppc EXCEPT ![p] = "idle"]
  /\ requests' = [requests EXCEPT ![p] = <<>>]
  /\ dpc' = [dpc EXCEPT ![p] = "none"]
  /\ di' = [di EXCEPT ![p] = 1]
  /\ wg' = [wg EXCEPT ![p] = 0]
  /\ errc' = [errc EXCEPT ![p] = <<>>]
  /\ closed' = [closed EXCEPT ![p] = FALSE]
  /\ perr' = [perr EXCEPT ![p] = <<>>]
  /\ tpc' = [tpc EXCEPT ![p] = [k \in Slots |-> "none"]]
  /\ terr' = [terr EXCEPT ![p] = [k \in Slots |-> Nil]]
  /\ tresp' = [tresp EXCEPT ![p] = [k \in Slots |-> NoResp]]
  /\ wire' = [wire EXCEPT ![p] = [k \in Slots |-> 0]]
  /\ calls' = [calls EXCEPT ![p] = [k \in Slots |-> <<>>]]
  /\ cancelled' = [cancelled EXCEPT ![p] = FALSE]
  /\ UNCHANGED <<store, now, claimed, runs, adminVars, faults>>

\* The ctx given to TriggerAPI is cancelled, or its deadline passes, while the
\* invocation runs.
Cancel(p) ==
  /\ ppc[p] \notin {"idle", "returned"}
  /\ ~cancelled[p]
  /\ cancelled' = [cancelled EXCEPT ![p] = TRUE]
  /\ UNCHANGED <<store, now, ppc, requests, dpc, di, wg, errc, closed, perr,
                 taskVars, claimed, runs, adminVars, faults>>

\* ---------------------------------------------------------------- execute
\* Mutant of Req: the tasks share the loop's variable and all see the last record.
ReqShared(p, k) == requests[p][Len(requests[p])]

\* The record the task in slot k of pass p works on (req := requests[i]).
Req(p, k) == requests[p][k]
Log(p, k, c) == [calls EXCEPT ![p][k] = Append(@, c)]

\* Mutant of AfterLock: the record is removed before its request is executed.
AfterLockRemovesFirst(err) == IF err # Nil THEN "send" ELSE "removeRequest"

\* Mutant of AfterLock: the error of Lock is ignored.
AfterLockIgnoreErr(err) == "execRequest"

\* Where execute goes after Lock returned err (lines 57-62).
AfterLock(err) == IF err # Nil THEN "send" ELSE "execRequest"

\* Mutant of AfterExec: a failed execution is finalized like a successful one
\* of a record that is not persistent.
AfterExecRemoveOnError(err, persistent) ==
  IF persistent /\ err = Nil THEN "updateResult" ELSE "removeRequest"

\* Mutant of AfterExec: the result is stored whether the record is persistent
\* or not.
AfterExecAlwaysStores(err, persistent) ==
  IF err # Nil THEN "logFailure" ELSE "updateResult"

\* Where execute goes after execRequest returned err (lines 62-75).
AfterExec(err, persistent) ==
  IF err # Nil THEN "logFailure"
  ELSE IF persistent THEN "updateResult" ELSE "removeRequest"

\* Where the task goes when execute has returned gErr (lines 33-36).
AfterExecute(gErr) == IF gErr # Nil THEN "send" ELSE "wgDone"

\* Mutant of LockOk: the claim is a conditional write (Locking = false is its
\* condition); on a record that is locked already the store rejects it.
LockOkIfUnlocked(p, k) ==
  /\ tpc[p][k] = "lock"
  /\ IF Locked(store, Req(p, k).ID)
     THEN LET err == Wrap(<<"ConditionalCheckFailedException">>, "lock")
          IN /\ terr' = [terr EXCEPT ![p][k] = err]
             /\ tpc' = [tpc EXCEPT ![p][k] = AfterLock(err)]
             /\ calls' = Log(p, k, Call("Lock", Req(p, k).ID, FALSE, Nil))
             /\ UNCHANGED <<store, claimed>>
     ELSE /\ store' = Lock(store, Req(p, k).ID)
          /\ claimed' = [claimed EXCEPT ![Req(p, k).ID] = TRUE]
          /\ calls' = Log(p, k, Call("Lock", Req(p, k).ID, TRUE, Nil))
          /\ tpc' = [tpc EXCEPT ![p][k] = AfterLock(Nil)]
          /\ terr' = terr
  /\ UNCHANGED <<now, passVars, tresp, wire, runs, adminVars, faults>>

\* Mutant of LockOk: a task gives up when a sibling has failed (fail-fast).
LockOkUnlessSiblingFailed(p, k) ==
  /\ tpc[p][k] = "lock"
  /\ \A j \in Slots : terr[p][j] = Nil
  /\ store' = Lock(store, Req(p, k).ID)
  /\ claimed' = [claimed EXCEPT ![Req(p, k).ID] = TRUE]
  /\ calls' = Log(p, k, Call("Lock", Req(p, k).ID, TRUE, Nil))
  /\ tpc' = [tpc EXCEPT ![p][k] = AfterLock(Nil)]
  /\ UNCHANGED <<now, passVars, terr, tresp, wire, runs, adminVars, faults>>

\* line 57, Lock succeeds.
LockOk(p, k) ==
  /\ tpc[p][k] = "lock"
  /\ store' = Lock(store, Req(p, k).ID)
  /\ claimed' = [claimed EXCEPT ![Req(p, k).ID] = TRUE]
  /\ calls' = Log(p, k, Call("Lock", Req(p, k).ID, TRUE, Nil))
  /\ tpc' = [tpc EXCEPT ![p][k] = AfterLock(Nil)]
  /\ UNCHANGED <<now, passVars, terr, tresp, wire, runs, adminVars, faults>>

\* Mutant of LockFail: the write reaches the table although the call returns
\* an error.
LockFailTakesEffect(p, k) ==
  /\ tpc[p][k] = "lock"
  /\ faults < MaxFaults
  /\ faults' = faults + 1
  /\ LET err == Wrap(Wrap(BackendErr, "conn.UpdateItem"), "lock")
     IN /\ terr' = [terr EXCEPT ![p][k] = err]
        /\ tpc' = [tpc EXCEPT ![p][k] = AfterLock(err)]
  /\ calls' = Log(p, k, Call("Lock", Req(p, k).ID, FALSE, Nil))
  /\ store' = Lock(store, Req(p, k).ID)
  /\ UNCHANGED <<now, passVars, tresp, wire, claimed, runs, adminVars>>

\* lines 57-60, Lock fails: execute returns the wrapped error.
LockFail(p, k) ==
  /\ tpc[p][k] = "lock"
  /\ faults < MaxFaults
  /\ faults' = faults + 1
  /\ LET err == Wrap(Wrap(BackendErr, "conn.UpdateItem"), "lock")
     IN /\ terr' = [terr EXCEPT ![p][k] = err]
        /\ tpc' = [tpc EXCEPT ![p][k] = AfterLock(err)]
  /\ calls' = Log(p, k, Call("Lock", Req(p, k).ID, FALSE, Nil))
  /\ UNCHANGED <<store, now, passVars, tresp, wire, claimed, runs, adminVars>>

\* ------------------------------------------- the header of a request
\* The keys and values of the Headers of a record, and the configuration of
\* the client (NewClient); "" is a user agent or token that is not set.
CallerKeys == {"User-Agent", "user-agent", "Authorization", "X-Trace"}
CallerValues == {"v1", "v2"}
CallerHeaders == UNION {[K -> CallerValues] : K \in SUBSET CallerKeys}
UserAgents == {"", "citium-v0.0.1"}
Tokens == {"", "test-token"}

\* textproto.CanonicalMIMEHeaderKey, which Header.Add, Set and Get apply
CanonicalKey(k) == IF k = "user-agent" THEN "User-Agent" ELSE k

\* http.Header.Add: the value is appended to the values of the key
HeaderAdd(h, k, v) ==
  LET c == CanonicalKey(k)
  IN [n \in DOMAIN h \cup {c} |->
        IF n = c THEN (IF c \in DOMAIN h THEN Append(h[c], v) ELSE <<v>>) ELSE h[n]]

\* http.Header.Set: the value replaces the values of the key
HeaderSet(h, k, v) ==
  LET c == CanonicalKey(k)
  IN [n \in DOMAIN h \cup {c} |-> IF n = c THEN <<v>> ELSE h[n]]

\* http.Header.Get: the first value of the key, or ""
HeaderGet(h, k) ==
  IF CanonicalKey(k) \in DOMAIN h THEN h[CanonicalKey(k)][1] ELSE ""

\* for k, v := range headers { req.Header.Add(k, v) }, in the order the map
\* is iterated
RECURSIVE AddHeaders(_, _, _)
AddHeaders(h, order, headers) ==
  IF order = <<>> THEN h
  ELSE AddHeaders(HeaderAdd(h, Head(order), headers[Head(order)]), Tail(order), headers)

\* lines 74-76: the configured user agent is added
SetUserAgent(h, userAgent) ==
  IF userAgent # "" THEN HeaderAdd(h, "User-Agent", userAgent) ELSE h

\* lines 77-79: the configured token is set
SetToken(h, token) ==
  IF token # "" THEN HeaderSet(h, "Authorization", <<"Bearer", token>>) ELSE h

\* lines 66-79: the header of the request DoRequest builds
RequestHeader(order, headers, userAgent, token) ==
  SetToken(SetUserAgent(AddHeaders(<<>>, order, headers), userAgent), token)

\* What c.Do sends for a key: one User-Agent line with the first value of the
\* header (Header.Get), and for any other key one line per value.
Outbound(h, k) ==
  IF CanonicalKey(k) \notin DOMAIN h THEN <<>>
  ELSE IF CanonicalKey(k) = "User-Agent" THEN <<HeaderGet(h, k)>>
  ELSE h[CanonicalKey(k)]

\* DoRequest builds the request of a record with the given Headers.
BuildRequest(order, headers, userAgent, token) ==
  /\ sent' = [headers |-> headers, userAgent |-> userAgent, token |-> token,
              header |-> RequestHeader(order, headers, userAgent, token)]
  /\ UNCHANGED <<store, now, passVars, taskVars, claimed, runs, creates, toggles,
                 listed, lists, halt, got, gets, faults>>

\* req.WithContext(ctx): once ctx is done c.Do returns the error of ctx, so a
\* request that could be built gets no response.
CtxAllows(done, o) == done => (~o.net \/ o.err = <<"c.Do">>)

\* lines 62-64: execRequest calls client.DoRequest; an error is wrapped.
ExecRequest(p, k) ==
  /\ tpc[p][k] = "execRequest"
  /\ \E o \in DoRequestOutcomes :
       /\ CtxAllows(cancelled[p], o)
       /\ IF o.err # Nil /\ ~(cancelled[p] /\ o.net)
          THEN faults < MaxFaults /\ faults' = faults + 1
          ELSE faults' = faults
       /\ LET err == IF o.err = Nil THEN Nil
                     ELSE Wrap(execRequestErr(o.err), "execRequest")
          IN /\ terr' = [terr EXCEPT ![p][k] = err]
             /\ tpc' = [tpc EXCEPT ![p][k] = AfterExec(err, Req(p, k).PersistentStore)]
       /\ tresp' = [tresp EXCEPT ![p][k] = o.resp]
       /\ wire' = [wire EXCEPT ![p][k] = IF o.net THEN @ + 1 ELSE @]
       /\ calls' = Log(p, k, Call("DoRequest", Req(p, k).ID, o.err = Nil, o.err))
  /\ UNCHANGED <<store, now, passVars, claimed, runs, adminVars>>

\* line 65, logFailure succeeds: execute returns the execution error.
LogFailureOk(p, k) ==
  /\ tpc[p][k] = "logFailure"
  /\ store' = logFailure(store, Req(p, k).ID, terr[p][k])
  /\ calls' = Log(p, k, Call("logFailure", Req(p, k).ID, TRUE, terr[p][k]))
  /\ terr' = [terr EXCEPT ![p][k] = Append2(@, Nil)]
  /\ tpc' = [tpc EXCEPT ![p][k] = AfterExecute(terr'[p][k])]
  /\ UNCHANGED <<now, passVars, tresp, wire, claimed, runs, adminVars, faults>>

\* line 65, logFailure fails: execute returns both errors.
LogFailureFail(p, k) ==
  /\ tpc[p][k] = "logFailure"
  /\ faults < MaxFaults
  /\ faults' = faults + 1
  /\ calls' = Log(p, k, Call("logFailure", Req(p, k).ID, FALSE, terr[p][k]))
  /\ terr' = [terr EXCEPT ![p][k] = Append2(@, Wrap(BackendErr, "conn.UpdateItem"))]
  /\ tpc' = [tpc EXCEPT ![p][k] = AfterExecute(terr'[p][k])]
  /\ UNCHANGED <<store, now, passVars, tresp, wire, claimed, runs, adminVars>>

\* line 68, updateResult succeeds with the time read at that line.
UpdateResultOk(p, k) ==
  /\ tpc[p][k] = "updateResult"
  /\ store' = updateResult(store, Req(p, k).ID, tresp[p][k], now)
  /\ calls' = Log(p, k, Call("updateResult", Req(p, k).ID, TRUE, Nil))
  /\ tpc' = [tpc EXCEPT ![p][k] = AfterExecute(Nil)]
  /\ UNCHANGED <<now, passVars, terr, tresp, wire, claimed, runs, adminVars, faults>>

\* lines 68-70, updateResult fails.
UpdateResultFail(p, k) ==
  /\ tpc[p][k] = "updateResult"
  /\ faults < MaxFaults
  /\ faults' = faults + 1
  /\ calls' = Log(p, k, Call("updateResult", Req(p, k).ID, FALSE, Nil))
  /\ LET err == Wrap(Wrap(BackendErr, "conn.UpdateItem"), "storeResult")
     IN /\ terr' = [terr EXCEPT ![p][k] = err]
        /\ tpc' = [tpc EXCEPT ![p][k] = AfterExecute(err)]
  /\ UNCHANGED <<store, now, passVars, tresp, wire, claimed, runs, adminVars>>

\* line 72, removeRequest succeeds.
RemoveRequestOk(p, k) ==
  /\ tpc[p][k] = "removeRequest"
  /\ store' = removeRequest(store, Req(p, k).ID)
  /\ calls' = Log(p, k, Call("removeRequest", Req(p, k).ID, TRUE, Nil))
  /\ tpc' = [tpc EXCEPT ![p][k] = AfterExecute(Nil)]
  /\ UNCHANGED <<now, passVars, terr, tresp, wire, claimed, runs, adminVars, faults>>

\* Mutant of RemoveRequestFail: the error of removeRequest is stored as the
\* failure reason of the record.
RemoveRequestFailLogsFailure(p, k) ==
  /\ tpc[p][k] = "removeRequest"
  /\ faults < MaxFaults
  /\ faults' = faults + 1
  /\ calls' = Log(p, k, Call("removeRequest", Req(p, k).ID, FALSE, Nil))
  /\ LET err == Wrap(Wrap(BackendErr, "conn.DeleteItem"), "removeRequest")
     IN /\ terr' = [terr EXCEPT ![p][k] = err]
        /\ tpc' = [tpc EXCEPT ![p][k] = AfterExecute(err)]
        /\ store' = logFailure(store, Req(p, k).ID, err)
  /\ UNCHANGED <<now, passVars, tresp, wire, claimed, runs, adminVars>>

\* lines 72-74, removeRequest fails.
RemoveRequestFail(p, k) ==
  /\ tpc[p][k] = "removeRequest"
  /\ faults < MaxFaults
  /\ faults' = faults + 1
  /\ calls' = Log(p, k, Call("removeRequest", Req(p, k).ID, FALSE, Nil))
  /\ LET err == Wrap(Wrap(BackendErr, "conn.DeleteItem"), "removeRequest")
     IN /\ terr' = [terr EXCEPT ![p][k] = err]
        /\ tpc' = [tpc EXCEPT ![p][k] = AfterExecute(err)]
  /\ UNCHANGED <<store, now, passVars, tresp, wire, claimed, runs, adminVars>>

\* A send on errc goes through when the buffer has room.
CanSend(buf) == Len(buf) < ErrcCap

\* line 35: errc <- errors.Wrapf(gErr, "execute ..."); a send on a closed
\* channel panics.
Send(p, k) ==
  /\ tpc[p][k] = "send"
  /\ IF closed[p]
     THEN /\ tpc' = [tpc EXCEPT ![p][k] = "panic"]
          /\ errc' = errc
     ELSE /\ CanSend(errc[p])
          /\ errc' = [errc EXCEPT ![p] =
               Append(@, Entry(Req(p, k).ID, Wrap(terr[p][k], "execute")))]
          /\ tpc' = [tpc EXCEPT ![p][k] = "wgDone"]
  /\ UNCHANGED <<store, now, ppc, requests, dpc, di, wg, closed, perr, terr,
                 tresp, wire, calls, claimed, runs, cancelled, adminVars, faults>>

\* line 33: the deferred wg.Done().
WgDone(p, k) ==
  /\ tpc[p][k] = "wgDone"
  /\ wg' = [wg EXCEPT ![p] = @ - 1]
  /\ tpc' = [tpc EXCEPT ![p][k] = "end"]
  /\ UNCHANGED <<store, now, ppc, requests, dpc, di, errc, closed, perr, terr,
                 tresp, wire, calls, claimed, runs, cancelled, adminVars, faults>>

\* ---------------------------------------------------------- specifications
Admin ==
  \/ \E id \in Ids, f \in 0..MaxFreeze, b \in BOOLEAN : Create(id, f, b)
  \/ \E id \in Ids : AdminLock(id)
  \/ \E id \in Ids : AdminUnlock(id)

Task(p, k) ==
  \/ LockOk(p, k) \/ LockFail(p, k)
  \/ ExecRequest(p, k)
  \/ LogFailureOk(p, k) \/ LogFailureFail(p, k)
  \/ UpdateResultOk(p, k) \/ UpdateResultFail(p, k)
  \/ RemoveRequestOk(p, k) \/ RemoveRequestFail(p, k)
  \/ Send(p, k)
  \/ WgDone(p, k)

Pass(p) ==
  \/ Spawn(p) \/ WaitAndClose(p) \/ Receive(p) \/ Return(p) \/ Finish(p)
  \/ \E k \in Slots : Task(p, k)

\* No invocation is in progress.
Quiet == \A p \in Passes : ppc[p] = "idle"

\* One invocation at a time, and the cli is used between invocations only.
Next ==
  \/ Quiet /\ Admin
  \/ Tick
  \/ \E p \in Passes : (Quiet /\ (FetchOk(p) \/ FetchFail(p))) \/ Pass(p)

Spec == Init /\ [][Next]_vars

\* Invocations over a table that holds records, one at a time.
NextPass ==
  \/ Tick
  \/ \E p \in Passes : (Quiet /\ (FetchOk(p) \/ FetchFail(p))) \/ Pass(p)

SpecPass == InitTable /\ [][NextPass]_vars

\* An operator locks and unlocks records while invocations run, one
\* invocation at a time.
NextRace ==
  \/ \E id \in Ids : AdminLock(id) \/ AdminUnlock(id)
  \/ Tick
  \/ \E p \in Passes : (Quiet /\ (FetchOk(p) \/ FetchFail(p))) \/ Pass(p)

SpecRace == InitTable /\ [][NextRace]_vars

\* The cli on a table that holds records: list, lock and unlock.
NextListed ==
  \/ List \/ ListFail
  \/ \E id \in Keys : AdminLock(id) \/ AdminUnlock(id)
  \/ Tick

SpecListed == InitListed /\ [][NextListed]_vars

\* Invocations whose ctx may be cancelled while they run, one at a time.
NextCancel ==
  \E p \in Passes : (Quiet /\ (FetchOk(p) \/ FetchFail(p))) \/ Pass(p) \/ Cancel(p)

SpecCancel == InitTable /\ [][NextCancel]_vars

\* The client builds requests for records with any headers, under any
\* configuration.
NextHeaders ==
  \E headers \in CallerHeaders, userAgent \in UserAgents, token \in Tokens :
    \E order \in Perms(DOMAIN headers) : BuildRequest(order, headers, userAgent, token)

SpecHeaders == Init /\ [][NextHeaders]_vars

\* The table holds at most MaxShared records.
InitShared ==
  /\ store \in {t \in FreshTables : Cardinality(DOMAIN t) <= MaxShared}
  /\ InitRest

\* Invocations that overlap: the host starts one while another still runs.
NextOverlap ==
  \E p \in Passes : FetchOk(p) \/ FetchFail(p) \/ Pass(p)

SpecOverlap == InitShared /\ [][NextOverlap]_vars

\* The host invokes TriggerAPI again and again; the count of runs stops at
\* MaxRuns.
FetchNext(p) ==
  /\ ppc[p] = "idle"
  /\ FirstFree(p)
  /\ runs' = IF runs < MaxRuns THEN runs + 1 ELSE runs
  /\ \E reqs \in FetchSchedRequests(store, now) :
       requests' = [requests EXCEPT ![p] = reqs]
  /\ ppc' = [ppc EXCEPT ![p] = "range"]
  /\ dpc' = [dpc EXCEPT ![p] = "loop"]
  /\ UNCHANGED <<store, now, di, wg, errc, closed, perr, taskVars, claimed,
                 cancelled, adminVars, faults>>

\* The executor answers.
ExecRequestOk(p, k) == ExecRequest(p, k) /\ terr'[p][k] = Nil

\* The steps of a pass when every store and executor call succeeds.
PassUp(p) ==
  \/ Spawn(p) \/ WaitAndClose(p) \/ Return(p) \/ Finish(p)
  \/ \E k \in Slots :
       \/ LockOk(p, k) \/ ExecRequestOk(p, k)
       \/ UpdateResultOk(p, k) \/ RemoveRequestOk(p, k)
       \/ WgDone(p, k)

\* The tables of up to NumKeys records, created at time 0 with no freeze.
DueTables ==
  UNION {{t \in [S -> {NewItem(id, 0, 0, b) : id \in S, b \in BOOLEAN}] :
            \A id \in S : t[id].ID = id} : S \in SUBSET Keys}

InitDue == store \in DueTables /\ InitRest

\* Invocations one after the other, for ever, with no failing call.
NextLive ==
  \/ Tick
  \/ \E p \in Passes : (Quiet /\ FetchNext(p)) \/ PassUp(p)

\* The host keeps invoking and the goroutines of a pass are scheduled fairly.
SpecLive ==
  /\ InitDue
  /\ [][NextLive]_vars
  /\ WF_vars(\E p \in Passes : Quiet /\ FetchNext(p))
  /\ \A p \in Passes : WF_vars(PassUp(p))

\* An operator unlocks records between invocations, which run one at a time.
NextUnlock ==
  \/ Quiet /\ \E id \in Ids : AdminUnlock(id)
  \/ Tick
  \/ \E p \in Passes : (Quiet /\ (FetchOk(p) \/ FetchFail(p))) \/ Pass(p)

SpecUnlock == InitTable /\ [][NextUnlock]_vars

\* The cli on a table that holds records: get, lock and unlock.
NextGet ==
  \/ \E id \in Keys : GetCmd(id) \/ GetCmdFail(id)
  \/ \E id \in Keys : AdminLock(id) \/ AdminUnlock(id)

SpecGet == InitListed /\ [][NextGet]_vars

\* ------------------------------------------------------------------ claims
Recs(p) == DOMAIN requests[p]
NumCalls(p, k, op) ==
  Cardinality({i \in DOMAIN calls[p][k] : calls[p][k][i].op = op})
Called(p, k, op) == NumCalls(p, k, op) > 0
LockFailed(p, k) == calls[p][k] # <<>> /\ ~calls[p][k][1].ok
LockSucceeded(p, k) == calls[p][k] # <<>> /\ calls[p][k][1].ok
ExecFailed(p, k) == Len(calls[p][k]) >= 2 /\ ~calls[p][k][2].ok
ExecSucceeded(p, k) == Len(calls[p][k]) >= 2 /\ calls[p][k][2].ok
\* execute has returned in the task
Executed(p, k) == tpc[p][k] \in {"send", "wgDone", "end"}

\* C1 as stated: when a pass returns, the executor has been invoked exactly
\* once for every record the due-query returned.
C1_ExactlyOncePerReturned ==
  \A p \in Passes : ppc[p] = "returned" =>
    \A k \in Recs(p) : NumCalls(p, k, "DoRequest") = 1

\* C1 as amended: the due-query returns distinct ids, one task is spawned per
\* returned record and none without one, every call of a task is on the id of
\* its own record, the executor is never invoked twice for a record, and when
\* the pass returns it has been invoked exactly once for every record whose
\* claim write succeeded and not at all for the others.
C1_ExactlyOncePerClaimed ==
  \A p \in Passes :
    /\ \A j, k \in Recs(p) : requests[p][j].ID = requests[p][k].ID => j = k
    /\ \A k \in Slots :
         /\ k \notin Recs(p) => tpc[p][k] = "none" /\ calls[p][k] = <<>>
         /\ \A i \in DOMAIN calls[p][k] : calls[p][k][i].id = requests[p][k].ID
         /\ NumCalls(p, k, "DoRequest") <= 1
    /\ ppc[p] = "returned" =>
         \A k \in Recs(p) :
           /\ tpc[p][k] = "end"
           /\ calls[p][k] # <<>>
           /\ NumCalls(p, k, "DoRequest") = 1 <=> LockSucceeded(p, k)

\* A pass has returned after executing both of the two records it was given.
C1_Witness ==
  \E p \in Passes :
    /\ ppc[p] = "returned"
    /\ Len(requests[p]) = 2
    /\ \A k \in Recs(p) : NumCalls(p, k, "DoRequest") = 1

PastEffective(item, t) ==
  Has(item, "EffectiveAfter") /\ StrLE(item.EffectiveAfter, unixFormat(t))

C3_ClaimFailureSkipsRecord ==
  \A p \in Passes : \A k \in Slots :
    LockFailed(p, k) =>
      /\ Len(calls[p][k]) = 1
      /\ ppc[p] = "returned" =>
           \A j \in Recs(p) : LockSucceeded(p, j) => Called(p, j, "DoRequest")

\* A pass has returned with one record whose claim write failed and another
\* that was executed.
C3_Witness ==
  \E p \in Passes :
    /\ ppc[p] = "returned"
    /\ \E k, j \in Recs(p) : LockFailed(p, k) /\ Called(p, j, "DoRequest")

\* Does the text of error e end with the text of error c?
Carries(e, c) ==
  Len(e) >= Len(c) /\ SubSeq(e, Len(e) - Len(c) + 1, Len(e)) = c
HasError(p, id) == \E i \in DOMAIN perr[p] : perr[p][i].id = id

\* C4: for a record whose execution failed, neither updateResult nor
\* removeRequest is called; once execute has returned logFailure has been
\* called exactly once, with a reason that is not empty and carries the text
\* of the execution error; the record is in the table with Locking = true; and
\* the pass returns an error that names the record.
C4_ExecutionFailure ==
  \A p \in Passes : \A k \in Slots :
    ExecFailed(p, k) =>
      /\ ~Called(p, k, "updateResult") /\ ~Called(p, k, "removeRequest")
      /\ Locked(store, requests[p][k].ID)
      /\ Executed(p, k) =>
           /\ NumCalls(p, k, "logFailure") = 1
           /\ Len(calls[p][k]) = 3
           /\ calls[p][k][3].arg # Nil
           /\ Carries(calls[p][k][3].arg, calls[p][k][2].arg)
      /\ ppc[p] = "returned" => perr[p] # <<>> /\ HasError(p, requests[p][k].ID)

\* A pass has returned after an execution failed and its reason was stored.
C4_Witness ==
  \E p \in Passes : \E k \in Recs(p) :
    /\ ppc[p] = "returned"
    /\ ExecFailed(p, k)
    /\ Len(calls[p][k]) = 3 /\ calls[p][k][3].ok
    /\ store[requests[p][k].ID].FailureReason = calls[p][k][3].arg

\* C5 as stated: when the pass returns, a record that was executed with
\* success and is not persistent has had removeRequest called, not
\* updateResult, and is no longer in the table.
C5_RemovedAfterSuccess ==
  \A p \in Passes : ppc[p] = "returned" =>
    \A k \in Recs(p) :
      (ExecSucceeded(p, k) /\ ~requests[p][k].PersistentStore) =>
        /\ Called(p, k, "removeRequest") /\ ~Called(p, k, "updateResult")
        /\ ~Present(store, requests[p][k].ID)

\* C5 as amended: for such a record updateResult is never called, removeRequest
\* is called exactly once, and the record is out of the table exactly when that
\* call succeeded; when it failed the record stays, with Locking = true.
C5_RemovedWhenRemoveSucceeds ==
  \A p \in Passes : \A k \in Slots :
    (ExecSucceeded(p, k) /\ ~requests[p][k].PersistentStore) =>
      /\ ~Called(p, k, "updateResult")
      /\ NumCalls(p, k, "removeRequest") <= 1
      /\ Executed(p, k) =>
           /\ Len(calls[p][k]) = 3 /\ calls[p][k][3].op = "removeRequest"
           /\ IF calls[p][k][3].ok
              THEN ~Present(store, requests[p][k].ID)
              ELSE Locked(store, requests[p][k].ID)

\* A pass has returned after executing and removing a record.
C5_Witness ==
  \E p \in Passes : \E k \in Recs(p) :
    /\ ppc[p] = "returned"
    /\ ExecSucceeded(p, k) /\ ~requests[p][k].PersistentStore
    /\ Len(calls[p][k]) = 3 /\ calls[p][k][3].ok
    /\ ~Present(store, requests[p][k].ID)

ResultSet(item) ==
  /\ Has(item, "ExecutionResult") /\ item.ExecutionResult # <<>>
  /\ Has(item, "ExecutedAt") /\ item.ExecutedAt # ZeroTime

\* C6 as stated: when the pass returns, a persistent record that was executed
\* with success has had updateResult called, not removeRequest, and is in the
\* table with ExecutionResult and ExecutedAt set and Locking = true.
C6_ResultKeptAfterSuccess ==
  \A p \in Passes : ppc[p] = "returned" =>
    \A k \in Recs(p) :
      (ExecSucceeded(p, k) /\ requests[p][k].PersistentStore) =>
        /\ Called(p, k, "updateResult") /\ ~Called(p, k, "removeRequest")
        /\ Locked(store, requests[p][k].ID)
        /\ ResultSet(store[requests[p][k].ID])

\* C6 as amended: for such a record removeRequest is never called, updateResult
\* is called exactly once, the record stays in the table with Locking = true,
\* and when updateResult succeeded it holds the marshalled response as
\* ExecutionResult and a set ExecutedAt.
C6_ResultKeptWhenUpdateSucceeds ==
  \A p \in Passes : \A k \in Slots :
    (ExecSucceeded(p, k) /\ requests[p][k].PersistentStore) =>
      /\ ~Called(p, k, "removeRequest")
      /\ NumCalls(p, k, "updateResult") <= 1
      /\ Locked(store, requests[p][k].ID)
      /\ Executed(p, k) =>
           /\ Len(calls[p][k]) = 3 /\ calls[p][k][3].op = "updateResult"
           /\ calls[p][k][3].ok =>
                /\ ResultSet(store[requests[p][k].ID])
                /\ store[requests[p][k].ID].ExecutionResult = Marshal(tresp[p][k])

\* A pass has returned after executing a persistent record and storing the
\* upstream's status 500 as its result.
C6_Witness ==
  \E p \in Passes : \E k \in Recs(p) :
    /\ ppc[p] = "returned"
    /\ ExecSucceeded(p, k) /\ requests[p][k].PersistentStore
    /\ Len(calls[p][k]) = 3 /\ calls[p][k][3].ok
    /\ Locked(store, requests[p][k].ID)
    /\ store[requests[p][k].ID].ExecutionResult = <<[code |-> 500, body |-> "raw"]>>

\* Some claim, execution or finalize step of the pass failed for some record.
SomeStepFailed(p) ==
  \E k \in Recs(p) : \E i \in DOMAIN calls[p][k] : ~calls[p][k][i].ok
QueryFailed(p) == ppc[p] = "returned" /\ dpc[p] = "none"

\* C7 as stated: the result of a pass is non-nil exactly when some claim,
\* execution or finalize step failed for some record.
C7_ErrorIffStepFailed ==
  \A p \in Passes : ppc[p] = "returned" => (perr[p] # <<>> <=> SomeStepFailed(p))

\* C7 as amended: that equivalence holds for a pass whose due-query succeeded,
\* a pass whose due-query failed returns an error although no step of a record
\* failed, and a pass over an empty due-set returns nil without any call.
C7_ErrorIffStepOrQueryFailed ==
  \A p \in Passes : ppc[p] = "returned" =>
    /\ perr[p] # <<>> <=> (SomeStepFailed(p) \/ QueryFailed(p))
    /\ QueryFailed(p) => ~SomeStepFailed(p)
    /\ (~QueryFailed(p) /\ requests[p] = <<>>) =>
         perr[p] = <<>> /\ \A k \in Slots : calls[p][k] = <<>>

\* A pass over two records has returned an error after one step failed.
C7_Witness ==
  \E p \in Passes :
    /\ ppc[p] = "returned"
    /\ Len(requests[p]) = 2
    /\ Len(perr[p]) = 1
    /\ SomeStepFailed(p)

\* The calls of a task that ran its protocol to the end.
Complete(c) ==
  /\ Len(c) >= 1 /\ c[1].op = "Lock"
  /\ IF c[1].ok
     THEN /\ Len(c) = 3 /\ c[2].op = "DoRequest"
          /\ c[3].op \in {"logFailure", "updateResult", "removeRequest"}
     ELSE Len(c) = 1

\* The next store or executor call of the task goes through.
CallGoesThrough(p, k) ==
  \/ LockOk(p, k) \/ ExecRequest(p, k) \/ LogFailureOk(p, k)
  \/ UpdateResultOk(p, k) \/ RemoveRequestOk(p, k)

\* C8: whatever the siblings did, a task that has a call to make can make it,
\* and when the pass returns every task has run its protocol to the end.
C8_FailuresIsolated ==
  \A p \in Passes :
    /\ \A k \in Slots :
         tpc[p][k] \in {"lock", "execRequest", "logFailure", "updateResult", "removeRequest"}
           => ENABLED CallGoesThrough(p, k)
    /\ (ppc[p] = "returned" /\ ~QueryFailed(p)) =>
         \A k \in Recs(p) : tpc[p][k] = "end" /\ Complete(calls[p][k])

\* A pass has returned with one record whose execution failed and another that
\* was claimed, executed and finalized.
C8_Witness ==
  \E p \in Passes : \E j, k \in Recs(p) :
    /\ ppc[p] = "returned"
    /\ ExecFailed(p, j)
    /\ ExecSucceeded(p, k) /\ Len(calls[p][k]) = 3 /\ calls[p][k][3].ok

\* C9: when TriggerAPI returns, every task it spawned has finished: the
\* WaitGroup is at zero, the channel is closed and empty, and no task is at a
\* store write, an executor call, a send or its wg.Done.
C9_JoinAll ==
  \A p \in Passes : ppc[p] = "returned" =>
    /\ wg[p] = 0
    /\ errc[p] = <<>>
    /\ \A k \in Slots : tpc[p][k] \in {"none", "end"}
    /\ ~QueryFailed(p) =>
         /\ closed[p] /\ dpc[p] = "done"
         /\ \A k \in Recs(p) : tpc[p][k] = "end"

\* A pass has returned after its two tasks both reported an error.
C9_Witness ==
  \E p \in Passes :
    /\ ppc[p] = "returned"
    /\ Len(requests[p]) = 2
    /\ Len(perr[p]) = 2
    /\ \A k \in Recs(p) : tpc[p][k] = "end"

\* The goroutines of a pass are scheduled fairly and the caller takes the
\* result of a pass that returned.
SpecPassFair == SpecPass /\ \A p \in Passes : WF_vars(Pass(p))

\* C10: every pass that got its records returns.
C10_PassTerminates ==
  \A p \in Passes : (ppc[p] = "range") ~> (ppc[p] = "returned")

\* A task waits to send while the buffer holds the error of its sibling.
C10_Witness ==
  \E p \in Passes : \E k \in Recs(p) :
    /\ ppc[p] = "range"
    /\ tpc[p][k] = "send"
    /\ Len(errc[p]) = ErrcCap

\* The entry the task in slot k of pass p sends for the error its execute returned.
OwnEntry(p, k) == Entry(requests[p][k].ID, Wrap(terr[p][k], "execute"))
TaskFailed(p, k) == \E i \in DOMAIN calls[p][k] : ~calls[p][k][i].ok
Count(list, e) == Cardinality({i \in DOMAIN list : list[i] = e})

\* C11: a task has an error exactly when one of its calls failed; at no time
\* is the entry of a record in the channel and the aggregate more than once;
\* and when a pass whose query succeeded returns, its aggregate holds exactly
\* one entry for each record whose task failed, carrying that task's own
\* error, and no other entry.
C11_OneEntryPerFailedTask ==
  \A p \in Passes :
    /\ \A k \in Recs(p) :
         /\ Executed(p, k) => (terr[p][k] # Nil <=> TaskFailed(p, k))
         /\ Cardinality({i \in DOMAIN (perr[p] \o errc[p]) :
                           (perr[p] \o errc[p])[i].id = requests[p][k].ID}) <= 1
    /\ (ppc[p] = "returned" /\ ~QueryFailed(p)) =>
         /\ \A k \in Recs(p) :
              Count(perr[p], OwnEntry(p, k)) = IF TaskFailed(p, k) THEN 1 ELSE 0
         /\ Len(perr[p]) = Cardinality({k \in Recs(p) : TaskFailed(p, k)})

\* A pass has returned the errors of its two tasks, a failed claim and a failed
\* execution, the one of the second record first.
C11_Witness ==
  \E p \in Passes :
    /\ ppc[p] = "returned"
    /\ Len(requests[p]) = 2
    /\ LockFailed(p, 1) /\ ExecFailed(p, 2)
    /\ perr[p] = <<OwnEntry(p, 2), OwnEntry(p, 1)>>

\* The instant a stored timestamp denotes, in ticks.
Instant(ts) == ts.sec * TicksPerSec + ts.frac

\* C12: the due-query never returns a record whose EffectiveAfter is later
\* than the time of the query or whose Locking is true.
C12_NeverFutureNorLocked ==
  [][(lists' # lists /\ listed'.ok) =>
       \A k \in DOMAIN listed'.out :
         /\ Instant(listed'.out[k].EffectiveAfter) <= now
         /\ ~Locked(store, listed'.out[k].ID)]_vars

\* The record is due at time t: its time has come and it is not locked.
Due(item, t) ==
  /\ Has(item, "EffectiveAfter") /\ Instant(item.EffectiveAfter) <= t
  /\ Has(item, "Locking") /\ item.Locking = FALSE

\* C13: the due-query returns every record of the table with
\* EffectiveAfter <= now and Locking = false, each exactly once.
C13_EveryDueRecordOnce ==
  [][(lists' # lists /\ listed'.ok) =>
       \A id \in DOMAIN store :
         Due(store[id], now) =>
           Cardinality({k \in DOMAIN listed'.out : listed'.out[k].ID = id}) = 1]_vars

\* The error TriggerAPI returns when the scan fails.
QueryError == Entry(0, Wrap(Wrap(BackendErr, "conn.Scan"), "fetchSchedRequests"))

\* C14: a pass whose due-query failed has returned, with that error alone; it
\* spawned no task and made no store or executor call; and the step in which
\* the query fails changes neither the table nor any claim.
C14_QueryFailureIsFatal ==
  [][\A p \in Passes :
       /\ (\E i \in DOMAIN perr'[p] : perr'[p][i].id = 0) =>
            /\ ppc'[p] = "returned"
            /\ perr'[p] = <<QueryError>>
            /\ requests'[p] = <<>> /\ dpc'[p] = "none" /\ wg'[p] = 0
            /\ errc'[p] = <<>> /\ ~closed'[p]
            /\ \A k \in Slots : tpc'[p][k] = "none" /\ calls'[p][k] = <<>>
       /\ (ppc[p] = "idle" /\ ppc'[p] = "returned") =>
            /\ perr'[p] = <<QueryError>>
            /\ store' = store /\ claimed' = claimed
            /\ tpc' = tpc /\ calls' = calls]_vars

\* A pass has returned the error of its query while a record of the table is
\* due and not locked.
C14_Witness ==
  \E p \in Passes :
    /\ ppc[p] = "returned" /\ QueryFailed(p)
    /\ perr[p] = <<QueryError>>
    /\ \E id \in DOMAIN store : FilterExpression(store[id], unixFormat(now))

\* C15: the Locking of a record of the table goes from true to false only in
\* the step of an operator's unlock command on that record, never in a step
\* of a pass; and a record whose task failed after its claim write has
\* Locking = true as long as no operator has given a command.
C15_NoUnlockInPass ==
  [][/\ \A id \in Keys :
          (Locked(store, id) /\ Present(store', id) /\ ~Locked(store', id)) =>
            /\ toggles' = toggles + 1
            /\ halt'[id] = "released"
            /\ tpc' = tpc /\ ppc' = ppc /\ dpc' = dpc
     /\ \A p \in Passes : \A k \in Recs(p) :
          (toggles' = 0 /\ LockSucceeded(p, k)' /\ (terr[p][k] # Nil)') =>
            Locked(store', requests'[p][k].ID)]_vars

\* A pass has returned with a record whose execution failed and one whose
\* remove failed, both still locked, and the operator then released one.
C15_Witness ==
  \E p \in Passes :
    /\ ppc[p] = "returned"
    /\ Len(requests[p]) = 2
    /\ \E j, k \in Recs(p) :
         /\ ExecFailed(p, j) /\ Locked(store, requests[p][j].ID)
         /\ Called(p, k, "removeRequest") /\ terr[p][k] # Nil
         /\ halt[requests[p][k].ID] = "released"
         /\ ~Locked(store, requests[p][k].ID)

\* C16: once an operator's lock command on a record has completed, no pass
\* invokes the executor for that record until it is unlocked.
C16_LockedNotExecuted ==
  [][\A p \in Passes : \A k \in Recs(p) :
       (tpc[p][k] = "execRequest" /\ tpc'[p][k] # "execRequest") =>
         halt[requests[p][k].ID] # "locked"]_vars

\* Does the text of error e begin with the text of error c?
StartsWith(e, c) == Len(e) >= Len(c) /\ SubSeq(e, 1, Len(c)) = c
\* Execution failed in the task and the failure-reason write failed as well.
BothFailed(p, k) ==
  /\ ExecFailed(p, k)
  /\ Len(calls[p][k]) = 3 /\ calls[p][k][3].op = "logFailure" /\ ~calls[p][k][3].ok

\* C17: when execution and the failure-reason write both failed, the error of
\* the record carries the execution error first and the error of the write
\* after it, each whole; when the pass returns its aggregate holds that error
\* in the entry of the record.
C17_BothErrorsReported ==
  \A p \in Passes : \A k \in Recs(p) :
    BothFailed(p, k) =>
      LET execErr == Wrap(execRequestErr(calls[p][k][2].arg), "execRequest")
          writeErr == Wrap(BackendErr, "conn.UpdateItem")
      IN /\ calls[p][k][3].arg = execErr
         /\ StartsWith(terr[p][k], execErr)
         /\ Carries(terr[p][k], writeErr)
         /\ Len(terr[p][k]) > Len(execErr) + Len(writeErr)
         /\ ppc[p] = "returned" =>
              \E i \in DOMAIN perr[p] :
                /\ perr[p][i].id = requests[p][k].ID
                /\ Carries(perr[p][i].text, terr[p][k])

\* A pass has returned after a transport error whose failure-reason write
\* failed too.
C17_Witness ==
  \E p \in Passes : \E k \in Recs(p) :
    /\ ppc[p] = "returned"
    /\ BothFailed(p, k)
    /\ calls[p][k][2].arg = <<"c.Do">>
    /\ Len(perr[p]) = 1

\* C18: in every state of the table, an item whose ExecutionResult is set has
\* its ExecutedAt set and has PersistentStore = true.
C18_ResultOnlyWithExecutedAtAndPersistent ==
  \A id \in DOMAIN store :
    (Has(store[id], "ExecutionResult") /\ store[id].ExecutionResult # <<>>) =>
      /\ Has(store[id], "ExecutedAt") /\ store[id].ExecutedAt # ZeroTime
      /\ Has(store[id], "PersistentStore") /\ store[id].PersistentStore = TRUE

\* A pass has returned: the table holds a persistent record with its result
\* and a record that is not persistent, was executed with success and is
\* still there without a result because its remove failed.
C18_Witness ==
  \E p \in Passes : \E j, k \in Recs(p) :
    /\ ppc[p] = "returned"
    /\ ExecSucceeded(p, j) /\ requests[p][j].PersistentStore
    /\ ResultSet(store[requests[p][j].ID])
    /\ ExecSucceeded(p, k) /\ ~requests[p][k].PersistentStore
    /\ Present(store, requests[p][k].ID)
    /\ store[requests[p][k].ID].ExecutionResult = <<>>

\* Table t is table s but for the attributes attrs of the item under key id
\* (an item that was not in s holds its key and these attributes only).
OnlyChanges(s, t, id, attrs) ==
  /\ DOMAIN t = DOMAIN s \cup {id}
  /\ \A i \in DOMAIN s \ {id} : t[i] = s[i]
  /\ DOMAIN t[id] = attrs \cup (IF Present(s, id) THEN DOMAIN s[id] ELSE {"ID"})
  /\ t[id].ID = id
  /\ Present(s, id) => \A a \in DOMAIN s[id] \ attrs : t[id][a] = s[id][a]

\* The attributes a call of the given store operation may change.
Written(op) ==
  IF op = "Lock" THEN {"Locking"}
  ELSE IF op = "logFailure" THEN {"FailureReason"}
  ELSE IF op = "updateResult" THEN {"ExecutionResult", "ExecutedAt"}
  ELSE {}

\* C19: a step in which a task's Lock, logFailure or updateResult call
\* succeeds changes, in the whole table, only Locking, only FailureReason, or
\* only ExecutionResult and ExecutedAt of the item of that record; a call that
\* fails changes nothing; and a lock or unlock command of the operator
\* changes only Locking of one item.
C19_FieldLevelUpdates ==
  [][/\ \A p \in Passes : \A k \in Slots :
          Len(calls'[p][k]) = Len(calls[p][k]) + 1 =>
            LET c == calls'[p][k][Len(calls'[p][k])]
            IN /\ ~c.ok => store' = store
               /\ (c.ok /\ c.op \in {"Lock", "logFailure", "updateResult"}) =>
                    OnlyChanges(store, store', c.id, Written(c.op))
     /\ toggles' # toggles =>
          \E id \in Keys : OnlyChanges(store, store', id, {"Locking"})]_vars

\* A record that failed in one pass, was released by the operator and was
\* executed with success in the next holds its failure reason, its result,
\* its lock and the attributes it was created with.
C19_Witness ==
  \E id \in DOMAIN store :
    /\ halt[id] = "released"
    /\ store[id].FailureReason # Nil
    /\ ResultSet(store[id])
    /\ Locked(store, id)
    /\ store[id].PersistentStore = TRUE
    /\ store[id].EffectiveAfter = RFC3339Nano(0)

\* Some result of the due-query at time t on table s holds the record.
Selectable(s, id, t) ==
  \E recs \in FetchSchedRequests(s, t) : \E k \in DOMAIN recs : recs[k].ID = id

\* C20: whatever Locking was, a record has Locking = true after a lock
\* command and Locking = false after an unlock command; of two writes of
\* Locking one after the other the table keeps the second (twice the same
\* write is one write); and a record that was unlocked and whose time has
\* come can be returned by the due-query again.
C20_LastWriterWins ==
  \A id \in Keys :
    /\ \A a, b \in BOOLEAN :
         setLocking(setLocking(store, id, a), id, b) = setLocking(store, id, b)
    /\ halt[id] = "locked" => Locked(store, id)
    /\ halt[id] \in {"released", "unlocked"} =>
         /\ Present(store, id) /\ Has(store[id], "Locking") /\ ~Locked(store, id)
         /\ PastEffective(store[id], now) => Selectable(store, id, now)

\* A locked record whose time had come was unlocked by the operator and the
\* list command printed it afterwards.
C20_Witness ==
  \E id \in DOMAIN store :
    /\ halt[id] = "released"
    /\ lists = 1 /\ listed.ok
    /\ \E k \in DOMAIN listed.out : listed.out[k].ID = id

\* C21: a get of an id the table does not hold returns no record (it fails
\* with a not-found error), and a get of an id the table holds returns the
\* record as it is stored.
C21_GetNotFound ==
  [][gets' # gets =>
       /\ ~Present(store, got'.id) => got'.out # "record"
       /\ (Present(store, got'.id) /\ got'.out = "record") =>
            got'.req = UnmarshalRequest(store[got'.id])]_vars

\* C22: once the ctx of a pass is cancelled, every call of the pass that is
\* still to return, to the executor or to the store, is aborted: it returns
\* an error.
C22_CancelAbortsCalls ==
  [][\A p \in Passes, k \in Slots :
       (cancelled[p] /\ calls'[p][k] # calls[p][k]) =>
         ~calls'[p][k][Len(calls'[p][k])].ok]_vars

\* The errors DoRequest returns: request construction, transport, body read.
ExecutorErrors ==
  {<<"url.Parse">>, <<"http.NewRequest">>, <<"c.Do">>, <<"ioutil.ReadAll resp.Body">>}

\* C23: a response of the upstream is a successful execution whatever its
\* status code is: the task goes on to store the result or to remove the
\* record and never writes a failure reason, the result stored holds the
\* status code and the body received, and the executor fails only with a
\* construction, transport or body read error.
C23_AnyResponseIsSuccess ==
  \A p \in Passes, k \in Slots :
    /\ tresp[p][k] # NoResp =>
         /\ ExecSucceeded(p, k)
         /\ ~Called(p, k, "logFailure")
         /\ tpc[p][k] # "logFailure"
         /\ Executed(p, k) =>
              (Called(p, k, "updateResult") \/ Called(p, k, "removeRequest"))
         /\ (Called(p, k, "updateResult") /\ calls[p][k][3].ok) =>
              /\ Present(store, Req(p, k).ID)
              /\ store[Req(p, k).ID].ExecutionResult = Marshal(tresp[p][k])
    /\ ExecFailed(p, k) =>
         /\ calls[p][k][2].arg \in ExecutorErrors
         /\ tresp[p][k] = NoResp

\* A pass has returned nil after the upstream answered 500 for a record that
\* is not persistent: the record has been removed.
C23_Witness ==
  \E p \in Passes : \E k \in Recs(p) :
    /\ ppc[p] = "returned"
    /\ perr[p] = <<>>
    /\ tresp[p][k].Code = 500
    /\ Called(p, k, "removeRequest")
    /\ calls[p][k][3].ok
    /\ ~Present(store, Req(p, k).ID)

\* C24: the headers of the record are added to the request and the configured
\* values win: with a token configured the request carries that bearer token
\* only, with a user agent configured it carries that user agent, and every
\* other header of the record is sent as the record has it.
C24_ConfiguredValuesWin ==
  /\ sent.token # "" =>
       Outbound(sent.header, "Authorization") = <<<<"Bearer", sent.token>>>>
  /\ sent.userAgent # "" =>
       Outbound(sent.header, "User-Agent") = <<sent.userAgent>>
  /\ \A k \in DOMAIN sent.headers :
       CanonicalKey(k) \notin {"Authorization", "User-Agent"} =>
         Outbound(sent.header, k) = <<sent.headers[k]>>

\* The task found that the url or the method of its record makes no request.
InvalidRequest(p, k) ==
  /\ Len(calls[p][k]) >= 2
  /\ calls[p][k][2].arg \in {<<"url.Parse">>, <<"http.NewRequest">>}

\* C25: when the url or the method of a record makes no request, execute
\* fails without anything having been sent to the upstream, and the failure
\* is handled as an execution failure: the record stays locked, no result is
\* stored and the record is not removed, and the one closing call is the
\* failure write, which carries the error; the record holds that reason once
\* the write has gone through.
C25_InvalidRequestFailsBeforeIO ==
  \A p \in Passes, k \in Slots :
    InvalidRequest(p, k) =>
      /\ wire[p][k] = 0
      /\ ExecFailed(p, k)
      /\ terr[p][k] # Nil
      /\ Locked(store, Req(p, k).ID)
      /\ ~Called(p, k, "updateResult") /\ ~Called(p, k, "removeRequest")
      /\ tpc[p][k] = "logFailure" \/ Executed(p, k)
      /\ Executed(p, k) =>
           /\ NumCalls(p, k, "logFailure") = 1
           /\ Carries(calls[p][k][3].arg, calls[p][k][2].arg)
           /\ calls[p][k][3].ok => store[Req(p, k).ID].FailureReason = calls[p][k][3].arg

\* A pass has returned an error for a record whose method http.NewRequest
\* rejected: nothing was sent, the record is locked and holds the reason.
C25_Witness ==
  \E p \in Passes : \E k \in Recs(p) :
    /\ ppc[p] = "returned"
    /\ HasError(p, Req(p, k).ID)
    /\ InvalidRequest(p, k)
    /\ calls[p][k][2].arg = <<"http.NewRequest">>
    /\ wire[p][k] = 0
    /\ Locked(store, Req(p, k).ID)
    /\ store[Req(p, k).ID].FailureReason = calls[p][k][3].arg

\* The calls of a task so far follow the order of execute: Lock, then the
\* executor once Lock has returned nil, then the one closing write that the
\* outcome of the executor and PersistentStore select.
InOrder(c, persistent) ==
  /\ Len(c) <= 3
  /\ Len(c) >= 1 => c[1].op = "Lock"
  /\ Len(c) >= 2 => c[1].ok /\ c[2].op = "DoRequest"
  /\ Len(c) = 3 =>
       c[3].op = IF ~c[2].ok THEN "logFailure"
                 ELSE IF persistent THEN "updateResult" ELSE "removeRequest"

\* C27: in the task of a record the claim write comes first, the executor is
\* called only after it returned with success, no result, remove or failure
\* write is issued before the executor has returned, and a task that claimed
\* its record ends with exactly one closing write.
C27_FixedStepOrder ==
  \A p \in Passes, k \in Slots :
    /\ InOrder(calls[p][k], Len(calls[p][k]) = 3 /\ Req(p, k).PersistentStore)
    /\ tpc[p][k] = "execRequest" => (Len(calls[p][k]) = 1 /\ LockSucceeded(p, k))
    /\ tpc[p][k] \in {"logFailure", "updateResult", "removeRequest"} =>
         (Len(calls[p][k]) = 2 /\ calls[p][k][2].op = "DoRequest")
    /\ Executed(p, k) => Complete(calls[p][k])
    /\ NumCalls(p, k, "logFailure") + NumCalls(p, k, "updateResult")
         + NumCalls(p, k, "removeRequest") <= 1

\* While a pass runs, one task has made its three calls and ended with a
\* stored result, and another has claimed its record and not yet called the
\* executor.
C27_Witness ==
  \E p \in Passes : \E j, k \in Recs(p) :
    /\ ppc[p] = "range"
    /\ tpc[p][j] = "end"
    /\ Len(calls[p][j]) = 3
    /\ calls[p][j][3].op = "updateResult" /\ calls[p][j][3].ok
    /\ tpc[p][k] = "execRequest"
    /\ Len(calls[p][k]) = 1

\* C28: a create under an id the table holds fails and leaves the stored
\* record as it is: no create changes or replaces an existing record.
C28_CreateKeepsExisting ==
  [][creates' # creates =>
       \A id \in DOMAIN store : Present(store', id) /\ store'[id] = store[id]]_vars

\* The calls of a task whose request was executed with success and whose
\* closing write, updateResult or removeRequest, failed.
FinalizeFailed(c) ==
  /\ Len(c) = 3
  /\ c[2].ok
  /\ c[3].op \in {"updateResult", "removeRequest"}
  /\ ~c[3].ok

\* The failure reason the table holds for an id, Nil if it holds none.
FailureReasonOf(s, id) ==
  IF Present(s, id) /\ Has(s[id], "FailureReason") THEN s[id].FailureReason ELSE Nil

\* C30: when the closing write fails after a successful execution, the
\* record is in the table with Locking = true, its request has been sent
\* once, no failure write has been made for it, and the due-query returns it
\* at no time as long as nobody unlocks it; and a failure reason is stored
\* only by the failure write of a task whose execution failed.
C30_FinalizeFailureLeavesLocked ==
  [][/\ \A p \in Passes, k \in Slots :
          FinalizeFailed(calls'[p][k]) =>
            LET id == calls'[p][k][1].id
            IN /\ Locked(store', id)
               /\ wire'[p][k] = 1
               /\ \A i \in 1..3 : calls'[p][k][i].op # "logFailure"
               /\ FailureReasonOf(store', id) = FailureReasonOf(store, id)
               /\ \A t \in 0..MaxTime : ~FilterExpression(store'[id], unixFormat(t))
     /\ \A id \in Keys :
          (FailureReasonOf(store', id) # FailureReasonOf(store, id)
             /\ FailureReasonOf(store', id) # Nil) =>
            \E p \in Passes, k \in Slots :
              /\ calls'[p][k] # calls[p][k]
              /\ calls'[p][k][Len(calls'[p][k])].op = "logFailure"
              /\ calls'[p][k][Len(calls'[p][k])].id = id
              /\ ~calls'[p][k][2].ok]_vars

\* A pass has returned an error for a persistent record whose request was
\* answered and whose updateResult failed: the record is locked and holds
\* neither a result nor a failure reason.
C30_Witness ==
  \E p \in Passes : \E k \in Recs(p) :
    /\ ppc[p] = "returned"
    /\ FinalizeFailed(calls[p][k])
    /\ calls[p][k][3].op = "updateResult"
    /\ HasError(p, Req(p, k).ID)
    /\ Locked(store, Req(p, k).ID)
    /\ ~ResultSet(store[Req(p, k).ID])
    /\ FailureReasonOf(store, Req(p, k).ID) = Nil

\* C26: the claim is not atomic. Every record a due-query returns is unlocked
\* when the query runs, and a claim write the store does not fail succeeds
\* whatever Locking is, also on a record another pass has locked already:
\* the task goes on to the executor. So two overlapping passes that both
\* queried a record before either claim write landed both claim it, both
\* execute it and both attempt to finalize it (C26_Witness).
C26_ClaimNotAtomic ==
  [][/\ \A p \in Passes :
          requests'[p] # requests[p] =>
            \A k \in DOMAIN requests'[p] : ~Locked(store, requests'[p][k].ID)
     /\ \A p \in Passes, k \in Slots :
          (tpc[p][k] = "lock" /\ tpc'[p][k] # "lock" /\ faults' = faults) =>
            /\ tpc'[p][k] = "execRequest"
            /\ Len(calls'[p][k]) = 1 /\ calls'[p][k][1].ok
            /\ Locked(store', calls'[p][k][1].id)]_vars

\* Two passes hold the same record, both claim writes succeeded, each task
\* has sent the request to the upstream, and each has made its closing call.
C26_Witness ==
  \E p, q \in Passes : \E j \in Recs(p), k \in Recs(q) :
    /\ p # q
    /\ Req(p, j).ID = Req(q, k).ID
    /\ LockSucceeded(p, j) /\ LockSucceeded(q, k)
    /\ wire[p][j] = 1 /\ wire[q][k] = 1
    /\ Len(calls[p][j]) = 3 /\ Len(calls[q][k]) = 3

\* A pass that is still running has removed the record after executing it.
RemovedByPass(id) ==
  \E p \in Passes, k \in Slots :
    /\ Len(calls[p][k]) = 3
    /\ calls[p][k][3] = Call("removeRequest", id, TRUE, Nil)

\* C29: a record a pass has removed after a successful execution stays
\* absent: no write of an overlapping pass puts an item under its id again.
C29_RemovedStaysAbsent ==
  [][\A id \in Ids :
       (RemovedByPass(id) /\ ~Present(store, id)) => ~Present(store', id)]_vars

\* The ids of the records a pass holds.
HeldIds(reqs) == {reqs[k].ID : k \in DOMAIN reqs}

C32_ClosedAfterAllTasks ==
  \A p \in Passes :
    /\ \A k \in Slots : tpc[p][k] # "panic"
    /\ wg[p] = Cardinality({k \in Slots : tpc[p][k] \notin {"none", "end"}})
    /\ closed[p] =>
         /\ di[p] > Len(requests[p])
         /\ \A k \in Recs(p) : tpc[p][k] = "end"
    /\ (ppc[p] = "range" /\ RangeEnds(errc[p], closed[p])) =>
         \A k \in Recs(p) : tpc[p][k] = "end"

\* The dispatching goroutine has closed the channel while an error a task
\* sent before its wg.Done is still in the buffer for the range loop.
C32_Witness ==
  \E p \in Passes :
    /\ ppc[p] = "range"
    /\ closed[p]
    /\ errc[p] # <<>>
    /\ Len(requests[p]) = 2
    /\ \A k \in Recs(p) : tpc[p][k] = "end"

\* Some pass has executed the request of the record.
ExecutedBySomePass(id) ==
  \E p \in Passes : \E k \in Recs(p) : Req(p, k).ID = id /\ ExecSucceeded(p, k)

\* C33: when passes keep being invoked and every store and executor call
\* succeeds, each record that is in the table unlocked with its time passed
\* is eventually executed by some pass, and when that pass returns the
\* record is no longer due (removed, or locked).
C33_DueRecordEventuallyExecuted ==
  /\ \A id \in Keys :
       (Present(store, id) /\ Due(store[id], now)) ~> ExecutedBySomePass(id)
  /\ [](\A p \in Passes : ppc[p] = "returned" =>
          \A k \in Recs(p) :
            ExecSucceeded(p, k) =>
              ~(Present(store, Req(p, k).ID) /\ Due(store[Req(p, k).ID], now)))

C35_ExecutedNotBeforeEffective ==
  \A id \in DOMAIN store :
    (ResultSet(store[id]) /\ Has(store[id], "EffectiveAfter")) =>
      Instant(store[id].ExecutedAt) >= Instant(store[id].EffectiveAfter)

\* C36: no write of a pass and no unlock clears a failure reason: a record
\* that holds one and stays in the table holds the same one after every
\* step, except for a failure write of a later failed execution, which
\* stores the new reason.
C36_FailureReasonNeverCleared ==
  [][\A id \in Ids :
       (FailureReasonOf(store, id) # Nil /\ Present(store', id)) =>
         \/ FailureReasonOf(store', id) = FailureReasonOf(store, id)
         \/ \E p \in Passes, k \in Slots :
              /\ Len(calls'[p][k]) = 3 /\ Len(calls[p][k]) = 2
              /\ calls'[p][k][3] = Call("logFailure", id, TRUE, FailureReasonOf(store', id))]_vars

\* A persistent record failed, was unlocked and then succeeded: a pass has
\* returned nil and the record holds the old failure reason and the result.
C36_Witness ==
  \E p \in Passes : \E k \in Recs(p) :
    /\ ppc[p] = "returned"
    /\ perr[p] = <<>>
    /\ halt[Req(p, k).ID] = "released"
    /\ ExecSucceeded(p, k)
    /\ FailureReasonOf(store, Req(p, k).ID) # Nil
    /\ ResultSet(store[Req(p, k).ID])
    /\ Locked(store, Req(p, k).ID)
====
